---- MODULE Spec2Model ----
(***************************************************************************)
(* The POST /api/compress serverless handler of api/compress.js: the blob  *)
(* retrieval loop, the engine selection, the two transcoders seen from the *)
(* handler, the size check, the blob and temp-file cleanup and the         *)
(* responses.  A buffer is a sequence of bytes, a message a sequence of    *)
(* text fragments (String.includes is membership of a fragment).           *)
(***************************************************************************)
EXTENDS Integers, Sequences, FiniteSets, TLC

\* ------------------------------------------------------------------ bounds
MaxLen == 1
MaxRequests == 2
NumIds == 1

\* --------------------------------------------------------------- constants
maxAttempts == 4

Byte == {0, 1}
Buffers(n) == UNION {[1..k -> Byte] : k \in 0..n}
InputBuffers == Buffers(MaxLen)
\* the 50 MB ceiling, on the scale of the model's buffers: every buffer of
\* InputBuffers is within it, OversizeBuffer is one byte beyond it
maxFileSize == MaxLen
OversizeBuffer == [i \in 1..(maxFileSize + 1) |-> 0]
\* an engine may produce more bytes than it was given
EngineOutputs == Buffers(MaxLen + 1)
NoBuf == <<-1>>
Null == "null"
Ids == 1..NumIds

LEVEL_CONFIG ==
    [low    |-> [quality |-> 85, scale10 |-> 15, gsSetting |-> "/printer"],
     medium |-> [quality |-> 60, scale10 |-> 12, gsSetting |-> "/ebook"],
     high   |-> [quality |-> 35, scale10 |-> 10, gsSetting |-> "/screen"]]
LevelInputs == {"low", "medium", "high", "ultra", "undefined"}

GS_CANDIDATES ==
    <<"gs", "/usr/local/bin/gs", "/usr/bin/gs", "/opt/homebrew/bin/gs", "/opt/local/bin/gs">>

\* file names as the handler reads them: the extension that path.extname
\* finds and whether the name can be written into a response header
Filenames ==
    {[given |-> TRUE,  isString |-> TRUE,  ext |-> ".pdf", headerSafe |-> TRUE],
     [given |-> TRUE,  isString |-> TRUE,  ext |-> ".PDF", headerSafe |-> FALSE],
     [given |-> TRUE,  isString |-> TRUE,  ext |-> ".txt", headerSafe |-> TRUE],
     [given |-> TRUE,  isString |-> FALSE, ext |-> "",     headerSafe |-> TRUE],
     [given |-> FALSE, isString |-> TRUE,  ext |-> "",     headerSafe |-> TRUE]}
DefaultFilename == [given |-> TRUE, isString |-> TRUE, ext |-> ".pdf", headerSafe |-> TRUE]
ToLowerCase(ext) == IF ext = ".PDF" THEN ".pdf" ELSE ext

BlobUrls == {"https://blob/a.pdf"}

\* ------------------------------------------------------------ temp files
NoPath == <<"none", 0>>
UploadPath(n) == <<"upload", n>>
InPathShared(id) == <<"pdfcomp-in", 0>>
InPath(id) == <<"pdfcomp-in", id>>
OutPath(id) == <<"pdfcomp-out", id>>
\* try { unlinkSync(path) } catch (_) {}: a missing file is no error
unlinkSync(files, path) == files \ {path}

\* ------------------------------------------------------------------ errors
Error(msg) == [message |-> msg, code |-> "", statusCode |-> 0, status |-> 0]
NoErr == [message |-> <<>>, code |-> "none", statusCode |-> 0, status |-> 0]
Includes(msg, part) == \E i \in 1..Len(msg) : msg[i] = part

\* ---------------------------------------------------------------- responses
NoResponse ==
    [status |-> 0, contentType |-> "", body |-> NoBuf, error |-> <<>>, engine |-> "",
     originalSize |-> -1, compressedSize |-> -1, contentLength |-> -1]
JsonResponse(statusCode, message) ==
    [NoResponse EXCEPT !.status = statusCode, !.contentType = "application/json",
                       !.error = message]
sendJson(statusCode, message) == JsonResponse(statusCode, message)

VARIABLES
    reqNo,            \* number of requests received so far
    pc,               \* the handler's position in the current request
    mode,             \* "json" (Mode A), "multipart" (Mode B) or "" (none)
    formTmpPath,      \* handler local
    blobUrl,          \* handler local
    inputBuffer,      \* handler local
    level,            \* handler local
    originalFilename, \* handler local
    compressedBuffer, \* handler local
    engine,           \* handler local
    gs,               \* handler local: what findGhostscript returned
    err,              \* the exception caught by the handler's catch
    response,         \* what was sent for the current request
    fs,               \* the temp files on disk
    attempt,          \* fetchBlobAsBuffer: the loop counter
    delayed,          \* fetchBlobAsBuffer: the delay of this attempt is over
    lastErr,          \* fetchBlobAsBuffer local
    gsId,             \* compressWithGhostscript: the random id of its paths
    hist,             \* history of the current request and of earlier probes
    mu,               \* one compressWithMuPDF call, page by page
    conc,             \* concurrent compressWithGhostscript calls and their temp dir
    probe,            \* one findGhostscript call, candidate by candidate
    fetcher,          \* one fetchBlobAsBuffer call, request by request
    hook              \* the useCompress hook of the browser client

vars == <<reqNo, pc, mode, formTmpPath, blobUrl, inputBuffer, level, originalFilename,
          compressedBuffer, engine, gs, err, response, fs, attempt, delayed, lastErr,
          gsId, hist, mu, conc, probe, fetcher, hook>>

NoHist ==
    [suppliedBlobUrl |-> Null,   \* body.blobUrl as read from the request
     received |-> NoBuf,         \* the input document as it arrived
     uploadPath |-> NoPath,            \* where the form parser stored the upload
     fetches |-> 0,              \* fetch attempts made
     lastCause |-> <<>>,         \* why the latest attempt failed, <<>> if it did not
     served |-> NoBuf,           \* the bytes the latest attempt received, if any
     delRequests |-> <<>>,       \* del(url) calls made
     probed |-> FALSE,           \* findGhostscript ran in this request
     probeFound |-> FALSE,       \* some candidate answered that probe
     gsRuns |-> 0,               \* compressWithGhostscript calls
     gsFailed |-> FALSE,         \* compressWithGhostscript threw
     gsEnding |-> "",            \* how it ended: returned, write, nonzero, timeout, missing
     mupdfRuns |-> 0,            \* compressWithMuPDF calls
     engineOutput |-> NoBuf,     \* what the engine returned
     discarded |-> FALSE,        \* the size check put the input back
     requestedLevel |-> "",      \* the level as read from the request
     params |-> <<>>,            \* the LEVEL_CONFIG row the engine read
     invalid |-> "",             \* "field": required field absent, "type": not a PDF name
     oversize |-> FALSE,         \* the input document exceeds the ceiling
     encrypted |-> FALSE,        \* compressWithMuPDF failed on a protected document
     prevProbe |-> "none"]       \* the latest earlier probe: "none", "null" or "found"

\* compressWithMuPDF not called: no document open, no Pixmap, no output
MuIdle ==
    [pc |-> "idle", level |-> "medium", src |-> <<>>, i |-> 0, bounds |-> <<>>,
     live |-> {}, pix |-> <<>>, jpegBytes |-> <<>>, pageObj |-> <<>>,
     created |-> <<>>, tree |-> <<>>, buf |-> <<>>]
\* no compressWithGhostscript call running: the temp dir is empty
ConcIdle ==
    [pcs |-> <<>>, ids |-> <<>>, reads |-> <<>>, results |-> <<>>, tmp |-> {},
     used |-> {}, foreign |-> {}, unlinked |-> {}]

\* findGhostscript not called
ProbeIdle == [pc |-> "idle", env |-> <<>>, i |-> 0, tried |-> <<>>, result |-> Null]
\* fetchBlobAsBuffer not called
FetcherIdle ==
    [pc |-> "idle", attempt |-> 0, delayed |-> FALSE, open |-> {}, lastErr |-> NoErr,
     events |-> <<>>, result |-> NoBuf, thrown |-> NoErr]
\* a React state value or ref: <<>> is null, <<v>> is the value v
None == <<>>
Some(v) == <<v>>
\* no useCompress hook mounted; a mounted hook starts from these values
\* (useState and useRef initial values, lines 10-19)
HookIdle ==
    [version |-> "none",
     status |-> "idle", progress |-> 0, originalSize |-> None, compressedSize |-> None,
     downloadUrl |-> None, downloadName |-> None, errorMessage |-> None,
     blobUrlRef |-> None, blobRef |-> None,
     calls |-> <<>>,        \* the compress() calls made: file, position, JSON blob read
     sync |-> 0,            \* the call that is inside a synchronous stretch, or 0
     live |-> {},           \* object URLs created and not revoked
     made |-> 0,            \* object URLs created so far
     timers |-> {},         \* URLs whose 60 s triggerDownload timer is pending
     triggers |-> 0,        \* triggerDownload calls so far
     lastOp |-> "mount",    \* the latest operation on the hook
     lastCall |-> 0,        \* the call the latest operation belongs to, or 0
     lastGot |-> <<>>,      \* how the request ended, if the latest operation ended one
     sinceReset |-> FALSE]  \* reset() ran and no compress() was called since

HandlerInit ==
    /\ reqNo = 0
    /\ pc = "idle"
    /\ mode = ""
    /\ formTmpPath = NoPath
    /\ blobUrl = Null
    /\ inputBuffer = NoBuf
    /\ level = "undefined"
    /\ originalFilename = DefaultFilename
    /\ compressedBuffer = NoBuf
    /\ engine = "undefined"
    /\ gs = Null
    /\ err = NoErr
    /\ response = NoResponse
    /\ fs = {}
    /\ attempt = 0
    /\ delayed = FALSE
    /\ lastErr = NoErr
    /\ gsId = 0
    /\ hist = NoHist

Init ==
    /\ HandlerInit
    /\ mu = MuIdle
    /\ conc = ConcIdle
    /\ probe = ProbeIdle
    /\ fetcher = FetcherIdle
    /\ hook = HookIdle

\* ---------------------------------------------------------------- handler
\* A request arrives (lines 262-282): CORS preflight and wrong methods are
\* answered at once, a POST goes on to its input mode.
Receive ==
    /\ pc \in {"idle", "done"}
    /\ UNCHANGED <<mu, conc, probe, fetcher, hook>>
    /\ reqNo < MaxRequests
    /\ \E method \in {"POST", "OPTIONS", "GET"}, contentType \in {"json", "multipart"} :
        /\ reqNo' = reqNo + 1
        /\ formTmpPath' = NoPath
        /\ blobUrl' = Null
        /\ inputBuffer' = NoBuf
        /\ level' = "undefined"
        /\ originalFilename' = DefaultFilename
        /\ compressedBuffer' = NoBuf
        /\ engine' = "undefined"
        /\ gs' = Null
        /\ err' = NoErr
        /\ attempt' = 0
        /\ delayed' = FALSE
        /\ lastErr' = NoErr
        /\ gsId' = 0
        /\ hist' = [NoHist EXCEPT !.prevProbe =
                         IF ~hist.probed THEN hist.prevProbe
                         ELSE IF gs = Null THEN "null" ELSE "found"]
        /\ fs' = fs
        /\ IF method = "OPTIONS"
           THEN /\ response' = [NoResponse EXCEPT !.status = 200]
                /\ pc' = "done"
                /\ mode' = ""
           ELSE IF method # "POST"
           THEN /\ response' = sendJson(405, <<"Method not allowed">>)
                /\ pc' = "done"
                /\ mode' = ""
           ELSE /\ response' = NoResponse
                /\ mode' = contentType
                /\ pc' = IF contentType = "json" THEN "modeA" ELSE "modeB"

\* Throwing inside the handler's try block: control goes to the catch.
ThrowToCaller(e) ==
    /\ err' = e
    /\ pc' = "done"
Throw(e) ==
    /\ err' = e
    /\ pc' = "catch"

\* Mode A (lines 282-300): read and parse the JSON body, validate it and
\* start fetching the blob.
\* lines 294-295 and 310-311: ext !== '.pdf'
IsPdfNameAny(name) == TRUE
IsPdfName(name) == ToLowerCase(name.ext) = ".pdf"

ModeA ==
    /\ pc = "modeA"
    /\ UNCHANGED <<mu, conc, probe, fetcher, hook>>
    /\ UNCHANGED <<reqNo, mode, formTmpPath, inputBuffer, compressedBuffer, engine, gs,
                   fs, delayed, lastErr, gsId>>
    /\ \E parses \in BOOLEAN, url \in BlobUrls \cup {Null}, lvl \in LevelInputs,
          filename \in Filenames :
        IF ~parses
        THEN \* JSON.parse throws, or the body is not an object
             /\ Throw(Error(<<"Unexpected token in JSON">>))
             /\ response' = response
             /\ UNCHANGED <<blobUrl, level, originalFilename, attempt, hist>>
        ELSE /\ blobUrl' = url
             /\ level' = lvl
             /\ originalFilename' = IF filename.given THEN filename ELSE DefaultFilename
             /\ hist' = [hist EXCEPT
                    !.suppliedBlobUrl = url,
                    !.requestedLevel = lvl,
                    !.invalid = IF url = Null THEN "field"
                                ELSE IF filename.given /\ filename.isString
                                        /\ filename.ext \notin {".pdf", ".PDF"}
                                THEN "type" ELSE ""]
             /\ IF url = Null
                THEN /\ response' = sendJson(400, <<"Missing blobUrl.">>)
                     /\ pc' = "done"
                     /\ UNCHANGED <<err, attempt>>
                ELSE IF ~originalFilename'.isString
                THEN \* path.extname throws on a name that is no string
                     /\ Throw(Error(<<"The \"path\" argument must be of type string">>))
                     /\ response' = response
                     /\ UNCHANGED attempt
                ELSE IF ~IsPdfName(originalFilename')
                THEN /\ response' = sendJson(400, <<"Only PDF files are accepted.">>)
                     /\ pc' = "done"
                     /\ UNCHANGED <<err, attempt>>
                ELSE /\ attempt' = 1
                     /\ pc' = "fetch"
                     /\ UNCHANGED <<err, response>>

\* ------------------------------------------------------- fetchBlobAsBuffer
StatusMessage(code) ==
    CASE code = 200 -> "OK"
      [] code = 404 -> "Not Found"
      [] code = 503 -> "Service Unavailable"

\* what one https.get can come to: a response with a status code and a
\* body, a transport error, or the 30 s timeout
FetchOutcomes ==
    [kind : {"response"}, statusCode : {404, 503}, bytes : {<<>>}]
    \cup [kind : {"response"}, statusCode : {200},
           bytes : InputBuffers \cup {OversizeBuffer}]
    \cup [kind : {"error", "timeout"}, statusCode : {0}, bytes : {<<>>}]

fetchBlobAsBufferOnce(outcome) ==
    IF outcome.kind = "response"
    THEN IF outcome.statusCode # 200
         THEN [ok |-> FALSE, buf |-> NoBuf,
               err |-> Error(<<"HTTP ", ToString(outcome.statusCode), " ",
                               StatusMessage(outcome.statusCode)>>)]
         ELSE [ok |-> TRUE, buf |-> outcome.bytes, err |-> NoErr]
    ELSE IF outcome.kind = "timeout"
    THEN [ok |-> FALSE, buf |-> NoBuf, err |-> Error(<<"timeout">>)]
    ELSE [ok |-> FALSE, buf |-> NoBuf, err |-> Error(<<"socket hang up">>)]

\* the for loop's condition
LoopConditionOffByOne(a) == a <= maxAttempts + 1
LoopCondition(a) == a <= maxAttempts

\* the catch inside the loop: lastErr = err
CaughtKeepFirst(previous, e) == IF previous = NoErr THEN e ELSE previous
Caught(previous, e) == e

\* the error thrown after the loop
FetchFailure(last) ==
    Error(<<"Failed to fetch blob after ", ToString(maxAttempts), " attempts: ">>
          \o last.message)

\* The delay taken inside the try of every attempt after the first.
FetchDelay ==
    /\ pc = "fetch"
    /\ UNCHANGED <<mu, conc, probe, fetcher, hook>>
    /\ attempt > 1
    /\ ~delayed
    /\ delayed' = TRUE
    /\ UNCHANGED <<reqNo, pc, mode, formTmpPath, blobUrl, inputBuffer, level,
                   originalFilename, compressedBuffer, engine, gs, err, response, fs,
                   attempt, lastErr, gsId, hist>>

\* One fetchBlobAsBufferOnce and what the loop does with its result.
FetchOnce ==
    /\ pc = "fetch"
    /\ UNCHANGED <<mu, conc, probe, fetcher, hook>>
    /\ attempt = 1 \/ delayed
    /\ UNCHANGED <<reqNo, mode, formTmpPath, blobUrl, level, originalFilename,
                   compressedBuffer, engine, gs, response, fs, gsId>>
    /\ \E outcome \in FetchOutcomes :
        LET r == fetchBlobAsBufferOnce(outcome) IN
        IF r.ok
        THEN /\ inputBuffer' = r.buf
             /\ pc' = "select"
             /\ hist' = [hist EXCEPT !.fetches = @ + 1, !.served = r.buf,
                                     !.lastCause = <<>>, !.received = r.buf,
                                     !.oversize = Len(r.buf) > maxFileSize]
             \* the function returns: its locals are gone
             /\ attempt' = 0
             /\ delayed' = FALSE
             /\ lastErr' = NoErr
             /\ err' = err
        ELSE /\ lastErr' = Caught(lastErr, r.err)
             /\ attempt' = attempt + 1
             /\ delayed' = FALSE
             /\ hist' = [hist EXCEPT !.fetches = @ + 1, !.served = NoBuf,
                                     !.lastCause = r.err.message]
             /\ inputBuffer' = inputBuffer
             /\ IF LoopCondition(attempt')
                THEN UNCHANGED <<pc, err>>
                ELSE Throw(FetchFailure(lastErr'))


\* what form.parse can reject with
FormErrors ==
    {[Error(<<"maxFileSize exceeded">>) EXCEPT !.code = "LIMIT_FILE_SIZE"],
     Error(<<"Malformed part header">>)}

\* Mode B (lines 303-322): parse the multipart form, which stores the upload
\* in a temp file, validate it, read the file and remove it.  A parse that
\* is rejected leaves no file: the form parser removes what it had written.
ModeB ==
    /\ pc = "modeB"
    /\ UNCHANGED <<mu, conc, probe, fetcher, hook>>
    /\ UNCHANGED <<reqNo, mode, blobUrl, compressedBuffer, engine, gs, attempt, delayed,
                   lastErr, gsId>>
    /\ \/ \E e \in FormErrors :
            /\ Throw(e)
            \* the parser rejects for size when the file exceeds maxFileSize
            /\ hist' = [hist EXCEPT !.oversize = (e.code = "LIMIT_FILE_SIZE")]
            /\ UNCHANGED <<formTmpPath, inputBuffer, level, originalFilename, response,
                           fs>>
       \/ \* no field named file
          /\ response' = sendJson(400, <<"No file uploaded.">>)
          /\ pc' = "done"
          /\ hist' = [hist EXCEPT !.invalid = "field"]
          /\ UNCHANGED <<formTmpPath, inputBuffer, level, originalFilename, err, fs>>
       \/ \E filename \in {f \in Filenames : f.isString}, bytes \in InputBuffers,
             lvl \in LevelInputs, readable \in BOOLEAN :
            LET filepath == UploadPath(reqNo)
                stored == fs \cup {filepath}
                named == [filename EXCEPT !.ext = IF filename.given THEN @ ELSE ""]
                valid == named.ext \in {".pdf", ".PDF"}
            IN  /\ hist' = [hist EXCEPT
                       !.uploadPath = filepath,
                       !.received = bytes,
                       !.requestedLevel = IF valid THEN lvl ELSE "",
                       !.invalid = IF valid THEN "" ELSE "type"]
                /\ IF ~IsPdfName(named)
                   THEN /\ response' = sendJson(400, <<"Only PDF files are accepted.">>)
                        /\ pc' = "done"
                        /\ fs' = stored
                        /\ UNCHANGED <<formTmpPath, inputBuffer, level,
                                       originalFilename, err>>
                   ELSE /\ originalFilename' = filename
                        /\ level' = lvl
                        /\ response' = response
                        /\ IF readable
                           THEN /\ inputBuffer' = bytes
                                /\ fs' = unlinkSync(stored, filepath)
                                /\ formTmpPath' = NoPath
                                /\ pc' = "select"
                                /\ err' = err
                           ELSE \* readFileSync throws
                                /\ formTmpPath' = filepath
                                /\ fs' = stored
                                /\ inputBuffer' = inputBuffer
                                /\ Throw(Error(<<"EIO: i/o error, read">>))

\* -------------------------------------------------------- engine selection
RECURSIVE TryCandidates(_, _)
TryCandidates(i, working) ==
    IF i > Len(GS_CANDIDATES) THEN Null
    ELSE IF i \in working THEN GS_CANDIDATES[i]
    ELSE TryCandidates(i + 1, working)
\* working: the candidates whose --version call succeeds
findGhostscript(working) == TryCandidates(1, working)
\* the environments a request may meet: no binary, the first candidate and
\* a later one installed, only the last two installed
WorkingSets == {{}, {1, 3}, {4, 5}}

CoerceLevelHigh(l) == IF l \in DOMAIN LEVEL_CONFIG THEN l ELSE "high"
CoerceLevel(l) == IF l \in DOMAIN LEVEL_CONFIG THEN l ELSE "medium"

\* the binary the handler tests and passes on: the result of this request's probe
ChosenGsCached(found) == IF hist.prevProbe = "null" THEN Null ELSE found
ChosenGs(found) == found

\* Lines 324-341 up to the engine call: coerce the level, probe for the
\* binary, choose the engine.
Select ==
    /\ pc = "select"
    /\ UNCHANGED <<mu, conc, probe, fetcher, hook>>
    /\ UNCHANGED <<reqNo, mode, formTmpPath, blobUrl, inputBuffer, originalFilename,
                   compressedBuffer, engine, err, response, fs, attempt, delayed,
                   lastErr, gsId>>
    /\ level' = CoerceLevel(level)
    /\ \E working \in WorkingSets :
        /\ gs' = ChosenGs(findGhostscript(working))
        /\ hist' = [hist EXCEPT !.probed = TRUE, !.probeFound = working # {}]
    /\ pc' = IF gs' # Null THEN "gs" ELSE "mupdf"

\* -------------------------------------------------- compressWithGhostscript
\* the finally block
GsFinallyInputOnly(files, id) == unlinkSync(files, InPath(id))
GsFinally(files, id) == unlinkSync(unlinkSync(files, InPath(id)), OutPath(id))

\* where the handler goes when compressWithGhostscript throws
AfterGsFailureFallback == "mupdf"
AfterGsFailure == "catch"

GsThrow(e) ==
    /\ err' = e
    /\ pc' = AfterGsFailure

\* Lines 160-171 up to the await: pick the id, write the input file and
\* start the binary.  A failed write may leave a partial file.
GsWrite ==
    /\ pc = "gs"
    /\ UNCHANGED <<mu, conc, probe, fetcher, hook>>
    /\ UNCHANGED <<reqNo, mode, formTmpPath, blobUrl, inputBuffer, level,
                   originalFilename, compressedBuffer, engine, gs, response, attempt,
                   delayed, lastErr>>
    /\ \E id \in Ids, written \in BOOLEAN, partial \in BOOLEAN :
        /\ gsId' = id
        /\ IF written
           THEN /\ fs' = fs \cup {InPath(id)}
                /\ pc' = "gsExec"
                /\ err' = err
                /\ hist' = [hist EXCEPT !.gsRuns = @ + 1, !.params = LEVEL_CONFIG[level]]
           ELSE /\ fs' = GsFinally(IF partial THEN fs \cup {InPath(id)} ELSE fs, id)
                /\ GsThrow(Error(<<"ENOSPC: no space left on device, write">>))
                /\ hist' = [hist EXCEPT !.gsRuns = @ + 1, !.gsFailed = TRUE,
                                        !.gsEnding = "write",
                                        !.params = LEVEL_CONFIG[level]]

\* Lines 165-176 from the await on: the binary has ended (exit 0, exit
\* non-zero, or killed at the 55 s timeout) and may have written the output
\* file; read it, and remove both files in the finally.
GsExec ==
    /\ pc = "gsExec"
    /\ UNCHANGED <<mu, conc, probe, fetcher, hook>>
    /\ UNCHANGED <<reqNo, mode, formTmpPath, blobUrl, inputBuffer, level,
                   originalFilename, gs, response, attempt, delayed, lastErr, gsId>>
    /\ \E ending \in {"exit0", "nonzero", "timeout"}, outFile \in BOOLEAN,
          out \in EngineOutputs :
        LET onDisk == IF outFile THEN fs \cup {OutPath(gsId)} ELSE fs IN
        /\ fs' = GsFinally(onDisk, gsId)
        /\ IF ending = "exit0" /\ outFile
           THEN /\ compressedBuffer' = out
                /\ engine' = "ghostscript"
                /\ pc' = "sizeCheck"
                /\ err' = err
                /\ hist' = [hist EXCEPT !.engineOutput = out, !.gsEnding = "returned"]
           ELSE /\ GsThrow(IF ending = "exit0"
                           THEN Error(<<"ENOENT: no such file or directory, open">>)
                           ELSE Error(<<"Command failed: ", gs,
                                        " -sDEVICE=pdfwrite -dPDFSETTINGS=",
                                        LEVEL_CONFIG[level].gsSetting>>))
                /\ hist' = [hist EXCEPT !.gsFailed = TRUE,
                                        !.gsEnding = IF ending = "exit0" THEN "missing"
                                                     ELSE ending]
                /\ UNCHANGED <<compressedBuffer, engine>>

\* -------------------------------------------------------- compressWithMuPDF
\* what the library throws on a password-protected document
MuPDFEncryptedErrors ==
    {Error(<<"cannot read ", "encrypted", " document">>),
     Error(<<"cannot authenticate ", "password">>)}
MuPDFErrors ==
    {Error(<<"cannot read ", "encrypted", " document">>),
     Error(<<"cannot authenticate ", "password">>),
     Error(<<"cannot find startxref; file may be ", "corrupt">>),
     Error(<<"out of memory">>)}

\* Lines 338-340: the page-render engine runs to its end without yielding.
MuPDF ==
    /\ pc = "mupdf"
    /\ UNCHANGED <<mu, conc, probe, fetcher, hook>>
    /\ UNCHANGED <<reqNo, mode, formTmpPath, blobUrl, inputBuffer, level,
                   originalFilename, gs, response, fs, attempt, delayed, lastErr, gsId>>
    /\ LEVEL_CONFIG[level].quality > 0
    /\ \/ \E out \in EngineOutputs :
            /\ compressedBuffer' = out
            /\ engine' = "mupdf"
            /\ pc' = "sizeCheck"
            /\ err' = err
            /\ hist' = [hist EXCEPT !.mupdfRuns = @ + 1, !.engineOutput = out,
                                    !.params = LEVEL_CONFIG[level]]
       \/ \E e \in MuPDFErrors :
            /\ Throw(e)
            /\ hist' = [hist EXCEPT !.mupdfRuns = @ + 1,
                                    !.params = LEVEL_CONFIG[level],
                                    !.encrypted = (e \in MuPDFEncryptedErrors)]
            /\ UNCHANGED <<compressedBuffer, engine>>

\* ---------------------------------------------------------------- size check
\* lines 344-347
sizeCheckNone(compressed, input) == compressed
sizeCheckStrict(compressed, input) ==
    IF Len(compressed) > Len(input) THEN input ELSE compressed
sizeCheck(compressed, input) ==
    IF Len(compressed) >= Len(input) THEN input ELSE compressed

SizeCheck ==
    /\ pc = "sizeCheck"
    /\ UNCHANGED <<mu, conc, probe, fetcher, hook>>
    /\ compressedBuffer' = sizeCheck(compressedBuffer, inputBuffer)
    /\ hist' = [hist EXCEPT !.discarded = Len(compressedBuffer) >= Len(inputBuffer)]
    /\ pc' = IF blobUrl # Null THEN "deleteBlob" ELSE "respond"
    /\ UNCHANGED <<reqNo, mode, formTmpPath, blobUrl, inputBuffer, level,
                   originalFilename, engine, gs, err, response, fs, attempt, delayed,
                   lastErr, gsId>>

\* Lines 349-353: del(blobUrl); whether it succeeds or throws makes no
\* difference to the handler.
\* line 352: what the handler holds as blobUrl once the deletion was attempted
AfterDelKept(url) == url
AfterDel(url) == Null

DeleteBlob ==
    /\ pc = "deleteBlob"
    /\ UNCHANGED <<mu, conc, probe, fetcher, hook>>
    /\ hist' = [hist EXCEPT !.delRequests = Append(@, blobUrl)]
    /\ blobUrl' = AfterDel(blobUrl)
    /\ pc' = "respond"
    /\ UNCHANGED <<reqNo, mode, formTmpPath, inputBuffer, level, originalFilename,
                   compressedBuffer, engine, gs, err, response, fs, attempt, delayed,
                   lastErr, gsId>>

\* the X-Engine header of the 200 response
ResponseEngineUnlessDiscarded(e) == IF hist.discarded THEN "none" ELSE e
ResponseEngine(e) == e

sendBufferEngineSize(buffer, input, e) ==
    [NoResponse EXCEPT !.status = 200, !.contentType = "application/pdf",
                       !.body = buffer, !.engine = e,
                       !.originalSize = Len(input),
                       !.compressedSize = Len(hist.engineOutput),
                       !.contentLength = Len(buffer)]
sendBuffer(buffer, input, e) ==
    [NoResponse EXCEPT !.status = 200, !.contentType = "application/pdf",
                       !.body = buffer, !.engine = ResponseEngine(e),
                       !.originalSize = Len(input), !.compressedSize = Len(buffer),
                       !.contentLength = Len(buffer)]

\* Lines 355-369: writeHead throws on a file name that is not a legal
\* header value.
Respond ==
    /\ pc = "respond"
    /\ UNCHANGED <<mu, conc, probe, fetcher, hook>>
    /\ UNCHANGED <<reqNo, mode, formTmpPath, blobUrl, inputBuffer, level,
                   originalFilename, compressedBuffer, engine, gs, fs, attempt, delayed,
                   lastErr, gsId, hist>>
    /\ IF originalFilename.headerSafe
       THEN /\ response' = sendBuffer(compressedBuffer, inputBuffer, engine)
            /\ pc' = "done"
            /\ err' = err
       ELSE /\ Throw([Error(<<"Invalid character in header content">>)
                        EXCEPT !.code = "ERR_INVALID_CHAR"])
            /\ response' = response

\* -------------------------------------------------------------------- catch
\* Lines 371-375: remove the upload's temp file and the blob, if still held.
Catch ==
    /\ pc = "catch"
    /\ UNCHANGED <<mu, conc, probe, fetcher, hook>>
    /\ fs' = IF formTmpPath # NoPath THEN unlinkSync(fs, formTmpPath) ELSE fs
    /\ hist' = IF blobUrl # Null
               THEN [hist EXCEPT !.delRequests = Append(@, blobUrl)]
               ELSE hist
    /\ pc' = "catchSend"
    /\ UNCHANGED <<reqNo, mode, formTmpPath, blobUrl, inputBuffer, level,
                   originalFilename, compressedBuffer, engine, gs, err, response,
                   attempt, delayed, lastErr, gsId>>

is413(e) == e.code = "LIMIT_FILE_SIZE" \/ e.statusCode = 413 \/ e.status = 413
ErrorMessageUnclassified(e) == <<"Compression failed: ">> \o e.message
\* lines 379-388
ErrorMessage(e) ==
    LET msg == e.message IN
    IF is413(e) THEN <<"File too large. Maximum upload size is 50 MB.">>
    ELSE IF Includes(msg, "encrypted") \/ Includes(msg, "password")
    THEN <<"Encrypted PDFs are not supported. Please remove the ", "password", " first.">>
    ELSE IF Includes(msg, "timeout")
    THEN <<"Compression timed out. Please try the High compression level for large files.">>
    ELSE IF Includes(msg, "Failed to fetch blob after ")
    THEN <<"Could not retrieve uploaded file: ">> \o msg
    ELSE IF Includes(msg, "corrupt") \/ Includes(msg, "repair")
    THEN <<"The PDF appears to be corrupted or uses an unsupported format.">>
    ELSE <<"Compression failed: ">> \o msg

\* Lines 377-390: the error response.
CatchSend ==
    /\ pc = "catchSend"
    /\ UNCHANGED <<mu, conc, probe, fetcher, hook>>
    /\ response' = sendJson(IF is413(err) THEN 413 ELSE 500, ErrorMessage(err))
    /\ pc' = "done"
    /\ UNCHANGED <<reqNo, mode, formTmpPath, blobUrl, inputBuffer, level,
                   originalFilename, compressedBuffer, engine, gs, err, fs, attempt,
                   delayed, lastErr, gsId, hist>>

Next ==
    \/ Receive
    \/ ModeA
    \/ FetchDelay
    \/ FetchOnce
    \/ ModeB
    \/ Select
    \/ GsWrite
    \/ GsExec
    \/ MuPDF
    \/ SizeCheck
    \/ DeleteBlob
    \/ Respond
    \/ Catch
    \/ CatchSend

Spec == Init /\ [][Next]_vars

\* ------------------------------------------- compressWithMuPDF, page by page
\* One call of compressWithMuPDF (lines 192-242), a step per library call
\* that changes what is live or what the output document holds.
handlerVars == <<reqNo, pc, mode, formTmpPath, blobUrl, inputBuffer, level,
                 originalFilename, compressedBuffer, engine, gs, err, response, fs,
                 attempt, delayed, lastErr, gsId, hist>>

MaxPages == 3
\* page.getBounds() of an input page: [x0, y0, x1, y1]
PageBounds == {<<0, 0, 2, 3>>, <<1, 1, 4, 3>>}
\* the documents openDocument can return: their pages' bounds, in order
Documents == UNION {[1..n -> PageBounds] : n \in 0..MaxPages}
countPages(doc) == Len(doc)

\* line 238: the index handed to insertPage
InsertAt == -1
\* PDFDocument.insertPage(at, obj): -1 appends, otherwise obj becomes the
\* page of 0-based index at
insertPageFirst(tree, at, obj) == <<obj>> \o tree
insertPage(tree, at, obj) ==
    IF at = -1 \/ at >= Len(tree)
    THEN Append(tree, obj)
    ELSE SubSeq(tree, 1, at) \o <<obj>> \o SubSeq(tree, at + 1, Len(tree))

\* line 211: pix.destroy() takes the Pixmap out of the live ones
DestroyedNone(live, pix) == live
Destroyed(live, pix) == live \ {pix}

\* lines 192-194: read the level's row, open the input, make the output
InitMuPDF ==
    /\ HandlerInit
    /\ conc = ConcIdle
    /\ probe = ProbeIdle
    /\ fetcher = FetcherIdle
    /\ hook = HookIdle
    /\ \E doc \in Documents, lvl \in DOMAIN LEVEL_CONFIG :
        mu = [MuIdle EXCEPT !.pc = "loop", !.level = lvl, !.src = doc]

\* lines 196-200: the loop test, loadPage(i), getBounds()
MuLoadPage ==
    /\ mu.pc = "loop"
    /\ mu.i < countPages(mu.src)
    /\ mu' = [mu EXCEPT !.pc = "loaded", !.bounds = mu.src[mu.i + 1]]
    /\ UNCHANGED <<handlerVars, conc, probe, fetcher, hook>>

\* lines 203-205: toPixmap at the level's scale; it may fail for memory
MuToPixmap ==
    /\ mu.pc = "loaded"
    /\ UNCHANGED <<handlerVars, conc, probe, fetcher, hook>>
    /\ LET pw == mu.bounds[3] - mu.bounds[1]
           ph == mu.bounds[4] - mu.bounds[2]
           scale10 == LEVEL_CONFIG[mu.level].scale10
           \* sizes in tenths of a pixel
           pix == [page |-> mu.i, imgW |-> pw * scale10, imgH |-> ph * scale10]
       IN  \/ mu' = [mu EXCEPT !.pc = "rendered", !.pix = pix,
                               !.live = mu.live \cup {pix}]
           \/ mu' = [mu EXCEPT !.pc = "threw"]

\* line 210: asJPEG(quality); it may fail, and then the function is left
\* with line 211 not run
MuAsJPEG ==
    /\ mu.pc = "rendered"
    /\ UNCHANGED <<handlerVars, conc, probe, fetcher, hook>>
    /\ \/ mu' = [mu EXCEPT !.pc = "encoded",
                           !.jpegBytes = [page |-> mu.pix.page,
                                          quality |-> LEVEL_CONFIG[mu.level].quality,
                                          imgW |-> mu.pix.imgW, imgH |-> mu.pix.imgH]]
       \/ mu' = [mu EXCEPT !.pc = "threw"]

\* line 211
MuDestroy ==
    /\ mu.pc = "encoded"
    /\ mu' = [mu EXCEPT !.pc = "released", !.live = Destroyed(mu.live, mu.pix),
                        !.pix = <<>>]
    /\ UNCHANGED <<handlerVars, conc, probe, fetcher, hook>>

\* lines 213-237: the image dictionary, the JPEG stream, the resources with
\* the stream as Im0, and addPage, which creates the page object only
MuAddPage ==
    /\ mu.pc = "released"
    /\ UNCHANGED <<handlerVars, conc, probe, fetcher, hook>>
    /\ LET pw == mu.bounds[3] - mu.bounds[1]
           ph == mu.bounds[4] - mu.bounds[2]
           imgObj == [stream |-> mu.jpegBytes, Width |-> mu.jpegBytes.imgW,
                      Height |-> mu.jpegBytes.imgH, Filter |-> "DCTDecode"]
           pageObj == [mediabox |-> <<0, 0, pw, ph>>, rotate |-> 0,
                       XObject |-> [Im0 |-> imgObj],
                       contents |-> <<"q", pw, 0, 0, ph, 0, 0, "cm", "/Im0", "Do", "Q">>]
       IN  mu' = [mu EXCEPT !.pc = "created", !.pageObj = pageObj,
                            !.jpegBytes = <<>>,
                            !.created = Append(mu.created, pageObj)]

\* line 238 and the loop's i++
MuInsertPage ==
    /\ mu.pc = "created"
    /\ mu' = [mu EXCEPT !.pc = "loop", !.tree = insertPage(mu.tree, InsertAt, mu.pageObj),
                        !.pageObj = <<>>, !.bounds = <<>>, !.i = mu.i + 1]
    /\ UNCHANGED <<handlerVars, conc, probe, fetcher, hook>>

\* lines 240-241: saveToBuffer writes the pages of the page tree
MuSave ==
    /\ mu.pc = "loop"
    /\ mu.i >= countPages(mu.src)
    /\ mu' = [mu EXCEPT !.pc = "returned", !.buf = mu.tree]
    /\ UNCHANGED <<handlerVars, conc, probe, fetcher, hook>>

NextMuPDF ==
    \/ MuLoadPage
    \/ MuToPixmap
    \/ MuAsJPEG
    \/ MuDestroy
    \/ MuAddPage
    \/ MuInsertPage
    \/ MuSave

SpecMuPDF == InitMuPDF /\ [][NextMuPDF]_vars

\* --------------------------------- compressWithGhostscript, calls in parallel
\* Several requests inside compressWithGhostscript (lines 159-177) at once,
\* sharing tmpdir(). A call runs without interruption up to its await of
\* execFile and again from there to its end; the gs process it started
\* reads and writes the files on its own, in between.
NumInvocations == 2
Invocations == 1..NumInvocations
InvocationIds == 1..(NumInvocations + 1)
\* line 160: randomBytes(8) as hex, 64 random bits: taken as a value no
\* earlier call got
randomBytes(used) == InvocationIds \ used

\* a file of the temp dir: its path, the call that created it, its content
\* (the number of the call whose input it holds or was made from); a call's
\* result is such a content, 0 while it runs and -1 when it threw
FilesAt(tmp, path) == {f \in tmp : f.path = path}
\* writing creates the file or replaces the content of the one there
WriteFile(tmp, path, by, data) ==
    IF FilesAt(tmp, path) = {}
    THEN tmp \cup {[path |-> path, creator |-> by, data |-> data]}
    ELSE {IF f.path = path THEN [f EXCEPT !.data = data] ELSE f : f \in tmp}
\* the accesses by a call to a file another call created
Access(tmp, path, by, op) ==
    {[op |-> op, by |-> by, creator |-> f.creator, path |-> path] :
        f \in {g \in FilesAt(tmp, path) : g.creator # by}}
Unlinks(tmp, path, by) ==
    {[path |-> path, creator |-> f.creator, by |-> by] : f \in FilesAt(tmp, path)}
\* lines 173-176: the finally of call p with id
ConcFinally(c, p, id) ==
    [c EXCEPT !.tmp = (c.tmp \ FilesAt(c.tmp, InPath(id))) \ FilesAt(c.tmp, OutPath(id)),
              !.unlinked = c.unlinked \cup Unlinks(c.tmp, InPath(id), p)
                             \cup Unlinks(c.tmp, OutPath(id), p),
              !.foreign = c.foreign \cup Access(c.tmp, InPath(id), p, "unlink")
                            \cup Access(c.tmp, OutPath(id), p, "unlink")]

InitConc ==
    /\ HandlerInit
    /\ mu = MuIdle
    /\ probe = ProbeIdle
    /\ fetcher = FetcherIdle
    /\ hook = HookIdle
    /\ conc = [ConcIdle EXCEPT !.pcs = [p \in Invocations |-> "start"],
                               !.ids = [p \in Invocations |-> 0],
                               !.reads = [p \in Invocations |-> 0],
                               !.results = [p \in Invocations |-> 0]]

\* lines 160-165: draw the id, write the input file, start gs and await it;
\* when the write fails the finally runs at once
ConcStart(p) ==
    /\ conc.pcs[p] = "start"
    /\ UNCHANGED <<handlerVars, mu, probe, fetcher, hook>>
    /\ \E id \in randomBytes(conc.used), written \in BOOLEAN :
        LET drawn == [conc EXCEPT !.ids[p] = id, !.used = conc.used \cup {id}] IN
        IF written
        THEN conc' = [drawn EXCEPT !.pcs[p] = "exec",
                                   !.tmp = WriteFile(conc.tmp, InPath(id), p, p),
                                   !.foreign = conc.foreign
                                       \cup Access(conc.tmp, InPath(id), p, "write")]
        ELSE conc' = [ConcFinally(drawn, p, id) EXCEPT !.pcs[p] = "done",
                                                       !.results[p] = -1]

\* the gs process of call p reads its input file (the last argument, 170)
ConcGsRead(p) ==
    /\ conc.pcs[p] = "exec"
    /\ UNCHANGED <<handlerVars, mu, probe, fetcher, hook>>
    /\ LET at == FilesAt(conc.tmp, InPath(conc.ids[p])) IN
       IF at = {}
       THEN conc' = [conc EXCEPT !.pcs[p] = "failed"]
       ELSE \E f \in at :
              conc' = [conc EXCEPT !.pcs[p] = "running", !.reads[p] = f.data,
                                   !.foreign = conc.foreign
                                       \cup Access(conc.tmp, f.path, p, "read")]

\* the gs process writes -sOutputFile (169) and exits, or fails
ConcGsWrite(p) ==
    /\ conc.pcs[p] = "running"
    /\ UNCHANGED <<handlerVars, mu, probe, fetcher, hook>>
    /\ \/ conc' = [conc EXCEPT !.pcs[p] = "resume",
                               !.tmp = WriteFile(conc.tmp, OutPath(conc.ids[p]), p,
                                                 conc.reads[p]),
                               !.foreign = conc.foreign
                                   \cup Access(conc.tmp, OutPath(conc.ids[p]), p, "write")]
       \/ conc' = [conc EXCEPT !.pcs[p] = "failed"]

\* lines 172-176 after a successful gs: readFileSync(outPath), the finally
ConcReturn(p) ==
    /\ conc.pcs[p] = "resume"
    /\ UNCHANGED <<handlerVars, mu, probe, fetcher, hook>>
    /\ LET id == conc.ids[p]
           at == FilesAt(conc.tmp, OutPath(id))
           after == ConcFinally(conc, p, id)
       IN  IF at = {}
           THEN conc' = [after EXCEPT !.pcs[p] = "done", !.results[p] = -1]
           ELSE \E f \in at :
                  conc' = [after EXCEPT !.pcs[p] = "done", !.results[p] = f.data,
                                        !.foreign = after.foreign
                                            \cup Access(conc.tmp, f.path, p, "read")]

\* lines 173-176 after a failed gs: only the finally
ConcThrow(p) ==
    /\ conc.pcs[p] = "failed"
    /\ conc' = [ConcFinally(conc, p, conc.ids[p]) EXCEPT !.pcs[p] = "done",
                                                         !.results[p] = -1]
    /\ UNCHANGED <<handlerVars, mu, probe, fetcher, hook>>

NextConc ==
    \E p \in Invocations :
        \/ ConcStart(p)
        \/ ConcGsRead(p)
        \/ ConcGsWrite(p)
        \/ ConcReturn(p)
        \/ ConcThrow(p)

SpecConc == InitConc /\ [][NextConc]_vars

\* --------------------------------------- findGhostscript, candidate by candidate
\* One call of findGhostscript (lines 145-153): a step to start the
\* --version call of the next candidate, a step for how that call settles.
engineVars == <<mu, conc>>
\* how execFileAsync(candidate, ['--version'], { timeout: 3000 }) settles
ProbeOutcomes == {"ok", "ENOENT", "nonzero", "timeout"}
\* line 148-149: the call resolved, so the candidate is returned
SucceedsAlways(outcome) == TRUE
Succeeds(outcome) == outcome = "ok"

InitProbe ==
    /\ HandlerInit
    /\ mu = MuIdle
    /\ conc = ConcIdle
    /\ fetcher = FetcherIdle
    /\ hook = HookIdle
    /\ \E env \in [1..Len(GS_CANDIDATES) -> ProbeOutcomes] :
        probe = [ProbeIdle EXCEPT !.pc = "loop", !.env = env, !.i = 1]

\* lines 146, 148: the next candidate of the list, its --version call started
ProbeExec ==
    /\ probe.pc = "loop"
    /\ probe.i <= Len(GS_CANDIDATES)
    /\ probe' = [probe EXCEPT !.pc = "await", !.tried = Append(probe.tried, probe.i)]
    /\ UNCHANGED <<handlerVars, engineVars, fetcher, hook>>

\* lines 148-150: the call settles: return the candidate, or catch and go on
ProbeSettle ==
    /\ probe.pc = "await"
    /\ probe' = IF Succeeds(probe.env[probe.i])
                THEN [probe EXCEPT !.pc = "returned", !.result = GS_CANDIDATES[probe.i]]
                ELSE [probe EXCEPT !.pc = "loop", !.i = probe.i + 1]
    /\ UNCHANGED <<handlerVars, engineVars, fetcher, hook>>

\* line 152: the list is exhausted
ProbeReturnNull ==
    /\ probe.pc = "loop"
    /\ probe.i > Len(GS_CANDIDATES)
    /\ probe' = [probe EXCEPT !.pc = "returned", !.result = Null]
    /\ UNCHANGED <<handlerVars, engineVars, fetcher, hook>>

NextProbe ==
    \/ ProbeExec
    \/ ProbeSettle
    \/ ProbeReturnNull

SpecProbe == InitProbe /\ [][NextProbe]_vars

\* ------------------------------------ fetchBlobAsBuffer, request by request
\* One call of fetchBlobAsBuffer (lines 66-85) with the https requests that
\* fetchBlobAsBufferOnce (51-64) opens: a step for the delay, one to open
\* the request of the attempt, one for how its promise settles, one for a
\* request that is still open ending on its own.
\* lines 53-63: which requests are open once attempt k's promise has
\* settled. 'end' and 'error' come when the request is over, and a refused
\* status is drained by res.resume(); the 'timeout' handler only rejects,
\* it does not destroy the request.
StillOpen(open, k, outcome) ==
    IF outcome.kind = "timeout" THEN open ELSE open \ {k}

InitFetch ==
    /\ HandlerInit
    /\ mu = MuIdle
    /\ conc = ConcIdle
    /\ probe = ProbeIdle
    /\ hook = HookIdle
    /\ fetcher = [FetcherIdle EXCEPT !.pc = "loop", !.attempt = 1]

\* lines 72-75: the delay of an attempt after the first
FcDelay ==
    /\ fetcher.pc = "loop"
    /\ LoopCondition(fetcher.attempt)
    /\ fetcher.attempt > 1
    /\ ~fetcher.delayed
    /\ fetcher' = [fetcher EXCEPT !.delayed = TRUE,
                                  !.events = Append(@, <<"delay", fetcher.attempt>>)]
    /\ UNCHANGED <<handlerVars, engineVars, probe, hook>>

\* lines 76, 53: https.get of this attempt
FcRequest ==
    /\ fetcher.pc = "loop"
    /\ LoopCondition(fetcher.attempt)
    /\ fetcher.attempt = 1 \/ fetcher.delayed
    /\ fetcher' = [fetcher EXCEPT !.pc = "await",
                                  !.open = @ \cup {fetcher.attempt},
                                  !.events = Append(@, <<"start", fetcher.attempt>>)]
    /\ UNCHANGED <<handlerVars, engineVars, probe, hook>>

\* lines 76-82: the promise of the attempt settles: return, or catch and
\* go to the next pass
FcSettle ==
    /\ fetcher.pc = "await"
    /\ UNCHANGED <<handlerVars, engineVars, probe, hook>>
    /\ \E outcome \in FetchOutcomes :
        LET r == fetchBlobAsBufferOnce(outcome)
            open == StillOpen(fetcher.open, fetcher.attempt, outcome)
        IN  IF r.ok
            THEN fetcher' = [fetcher EXCEPT !.pc = "returned", !.result = r.buf,
                                            !.open = open]
            ELSE fetcher' = [fetcher EXCEPT !.pc = "loop", !.open = open,
                                            !.lastErr = Caught(fetcher.lastErr, r.err),
                                            !.attempt = @ + 1, !.delayed = FALSE,
                                            !.events = Append(@, <<"fail", fetcher.attempt>>)]

\* a request whose promise was rejected on 'timeout' ends later, when the
\* server answers or the connection closes
FcLateEnd ==
    /\ \E k \in fetcher.open :
        /\ ~(fetcher.pc = "await" /\ k = fetcher.attempt)
        /\ fetcher' = [fetcher EXCEPT !.open = @ \ {k}]
    /\ UNCHANGED <<handlerVars, engineVars, probe, hook>>

\* line 84: the loop is over
FcThrow ==
    /\ fetcher.pc = "loop"
    /\ ~LoopCondition(fetcher.attempt)
    /\ fetcher' = [fetcher EXCEPT !.pc = "threw",
                                  !.thrown = FetchFailure(fetcher.lastErr)]
    /\ UNCHANGED <<handlerVars, engineVars, probe, hook>>

NextFetch ==
    \/ FcDelay
    \/ FcRequest
    \/ FcSettle
    \/ FcLateEnd
    \/ FcThrow

SpecFetch == InitFetch /\ [][NextFetch]_vars

\* ------------------------------------------------------------ useCompress
\* The hook of src/src/hooks/useCompress.js (version "v1", lines 9-114) and
\* its later version in src/tailwind.config.js (version "v2", lines 37-191,
\* with triggerDownload, the axios timeout and more error texts). A step
\* is a stretch of the hook's code that runs without interruption: from a
\* call or a callback to the next await or return.
MaxCalls == 2
MaxTriggers == 1
HookVersions == {"v1", "v2"}

\* File objects: the name in parts, the last part being the extension if
\* there is one, and the size
Files ==
    {[name |-> <<"test", ".pdf">>, size |-> 2],
     [name |-> <<"SCAN", ".PDF">>, size |-> 3],
     [name |-> <<"notes">>, size |-> 2]}

\* file.name.replace(/\.pdf$/i, '') (v1 line 85, v2 line 155)
BaseNameKeepExt(name) == name
BaseName(name) ==
    IF Len(name) > 0 /\ ToLowerCase(name[Len(name)]) = ".pdf"
    THEN SubSeq(name, 1, Len(name) - 1)
    ELSE name
\* `${baseName}_compressed.pdf` (v1 line 86)
DownloadName(name) == BaseName(name) \o <<"_compressed.pdf">>

\* parseInt(text, 10) of a header value given as its characters: the value
\* of the leading decimal digits, -1 for NaN (no leading digit, or no
\* header at all: undefined)
DigitValue(c) ==
    CASE c = "0" -> 0 [] c = "1" -> 1 [] c = "2" -> 2 [] c = "3" -> 3 [] c = "4" -> 4
      [] c = "5" -> 5 [] c = "6" -> 6 [] c = "7" -> 7 [] c = "8" -> 8 [] c = "9" -> 9
      [] OTHER -> -1
RECURSIVE ParseDigits(_, _, _)
ParseDigits(text, n, acc) ==
    IF n > Len(text) \/ DigitValue(text[n]) = -1 THEN acc
    ELSE ParseDigits(text, n + 1, acc * 10 + DigitValue(text[n]))
parseInt(text) ==
    IF Len(text) = 0 \/ DigitValue(text[1]) = -1 THEN -1
    ELSE ParseDigits(text, 1, 0)
\* parseInt(response.headers['x-compressed-size'], 10) || blob.size
\* (v1 lines 78-79): NaN and 0 are falsy
CompressedBytesHeaderOnly(header, size) == parseInt(header)
CompressedBytes(header, size) ==
    IF parseInt(header) \in {-1, 0} THEN size ELSE parseInt(header)
\* values of the X-Compressed-Size header as characters; <<>> is no header
HeaderValues == {<<>>, <<"3">>, <<"0">>, <<"x">>}
BlobSizes == {0, 2}

\* response bodies as the hook reads them: whether the text is JSON, the
\* value of its error member if it has one, and the text itself
ErrorBody == [json |-> TRUE, error |-> Some(<<"Only PDF files are accepted.">>),
              text |-> <<"{\"error\":\"Only PDF files are accepted.\"}">>]
EmptyBody == [json |-> TRUE, error |-> None, text |-> <<"{}">>]
PlainBody == [json |-> FALSE, error |-> None,
              text |-> <<"An error occurred with your deployment">>]
NoBody == [json |-> FALSE, error |-> None, text |-> <<>>]
Bodies == {ErrorBody, EmptyBody, PlainBody}
\* JavaScript's undefined as a message
Undefined == <<"(undefined)">>

\* what axios.post can come to. A resolved promise carries a Blob (type,
\* size, text) and the header; a rejected one an Error: message, code and,
\* when the server answered, the response with its status and Blob.
AxiosResolved ==
    [kind : {"resolve"}, type : {"application/pdf"}, header : HeaderValues,
     size : BlobSizes, body : {NoBody}, message : {<<>>}, code : {""},
     hasBlob : {FALSE}, status : {200}]
    \cup [kind : {"resolve"}, type : {"application/json"}, header : {<<>>},
          size : {2}, body : Bodies, message : {<<>>}, code : {""},
          hasBlob : {FALSE}, status : {200}]
AxiosRejected ==
    [kind : {"reject"}, type : {""}, header : {<<>>}, size : {0}, body : {NoBody},
     message : {<<"Network Error">>, <<>>}, code : {"ERR_NETWORK"},
     hasBlob : {FALSE}, status : {0}]
    \cup [kind : {"reject"}, type : {""}, header : {<<>>}, size : {0}, body : {NoBody},
          message : {<<"timeout", " of 60000ms exceeded">>}, code : {"ECONNABORTED"},
          hasBlob : {FALSE}, status : {0}]
    \cup [kind : {"reject"}, type : {""}, header : {<<>>}, size : {2}, body : Bodies,
          message : {<<"Request failed with status code ">>}, code : {"ERR_BAD_RESPONSE"},
          hasBlob : {TRUE}, status : {500, 413}]
AxiosOutcomes == AxiosResolved \cup AxiosRejected

\* an Error thrown inside the try: no code, no response
Thrown(msg) ==
    [kind |-> "reject", type |-> "", header |-> <<>>, size |-> 0, body |-> NoBody,
     message |-> msg, code |-> "", hasBlob |-> FALSE, status |-> 0]
\* v1 lines 67-71: the JSON blob of a resolved response; JSON.parse throws
\* on a text that is not JSON
JsonBlobError(body) ==
    IF ~body.json THEN Thrown(<<"Unexpected token">>)
    ELSE IF body.error # None /\ body.error[1] # <<>> THEN Thrown(body.error[1])
    ELSE Thrown(<<"Compression failed">>)

\* the text read from err.response.data: JSON.parse(t).error, or t when
\* parsing throws
BlobMessage(body) ==
    IF ~body.json THEN body.text
    ELSE IF body.error = None THEN Undefined
    ELSE body.error[1]
\* err.message || 'An unexpected error occurred.'
MessageOrDefault(e) ==
    IF e.message # <<>> THEN e.message ELSE <<"An unexpected error occurred.">>
\* the catch of compress: v1 lines 91-96, v2 lines 161-172
CatchMessage(version, e) ==
    IF version = "v1"
    THEN IF e.hasBlob THEN BlobMessage(e.body) ELSE MessageOrDefault(e)
    ELSE IF e.code = "ECONNABORTED" \/ Includes(e.message, "timeout")
    THEN <<"The request timed out. Your PDF may be too large or complex">>
    ELSE IF e.hasBlob THEN BlobMessage(e.body)
    ELSE IF e.status = 413 THEN <<"File too large. Maximum upload size is 50 MB.">>
    ELSE MessageOrDefault(e)

\* progress events of the request: bytes loaded of a total, 0 when the
\* total is not known
ProgressEvents ==
    {[phase |-> ph, loaded |-> l, total |-> t] :
        ph \in {"upload", "download"}, l \in 1..2, t \in {0, 2}}
\* Math.round((evt.loaded / evt.total) * 40)
Pct(evt) == (2 * evt.loaded * 40 + evt.total) \div (2 * evt.total)
\* onUploadProgress, onDownloadProgress (v1 lines 49-60, v2 lines 111-127)
ProgressAfter(version, prev, evt) ==
    IF evt.total # 0
    THEN Pct(evt) + (IF evt.phase = "upload" THEN 10 ELSE 55)
    ELSE IF version = "v2" /\ evt.phase = "download"
    THEN (IF prev < 80 THEN prev + 3 ELSE prev)
    ELSE prev

\* reset (v1 lines 21-33, v2 lines 50-63)
ResetKeepingUrl(h) ==
    [h EXCEPT !.blobUrlRef = None, !.blobRef = None,
              !.status = "idle", !.progress = 0, !.originalSize = None,
              !.compressedSize = None, !.downloadUrl = None, !.downloadName = None,
              !.errorMessage = None]
Reset(h) ==
    [h EXCEPT !.live = IF h.blobUrlRef # None THEN @ \ {h.blobUrlRef[1]} ELSE @,
              !.blobUrlRef = None, !.blobRef = None,
              !.status = "idle", !.progress = 0, !.originalSize = None,
              !.compressedSize = None, !.downloadUrl = None, !.downloadName = None,
              !.errorMessage = None]

\* the status set when the catch of compress has the message
\* (v1 line 98, v2 line 174)
FailedStatusDone == "done"
FailedStatus == "error"

NoOutcome == Thrown(<<>>)

InitHook ==
    /\ HandlerInit
    /\ mu = MuIdle
    /\ conc = ConcIdle
    /\ probe = ProbeIdle
    /\ fetcher = FetcherIdle
    /\ \E v \in HookVersions : hook = [HookIdle EXCEPT !.version = v]

\* the caller calls reset()
HookReset ==
    /\ hook.version # "none"
    /\ hook.sync = 0
    /\ hook' = [Reset(hook) EXCEPT !.lastOp = "reset", !.lastCall = 0,
                                   !.lastGot = <<>>, !.sinceReset = TRUE]
    /\ UNCHANGED <<handlerVars, engineVars, probe, fetcher>>

\* compress(file, level) up to its await of axios.post
\* (v1 lines 35-46, v2 lines 94-105)
HookCompress ==
    /\ hook.version # "none"
    /\ hook.sync = 0
    /\ Len(hook.calls) < MaxCalls
    /\ UNCHANGED <<handlerVars, engineVars, probe, fetcher>>
    /\ \E file \in Files :
        hook' = [Reset(hook) EXCEPT
                    !.originalSize = Some(file.size),
                    !.status = "uploading",
                    !.progress = 10,
                    !.calls = Append(hook.calls,
                                     [file |-> file, pc |-> "inflight", got |-> NoOutcome]),
                    !.lastOp = "compress", !.lastCall = Len(hook.calls) + 1,
                    !.lastGot = <<>>,
                    !.sinceReset = FALSE]

\* a progress event of call c's request
HookProgress(c) ==
    /\ hook.calls[c].pc = "inflight"
    /\ hook.sync = 0
    /\ UNCHANGED <<handlerVars, engineVars, probe, fetcher>>
    /\ \E evt \in ProgressEvents :
        /\ evt.loaded <= evt.total \/ evt.total = 0
        /\ hook' = [hook EXCEPT !.progress = ProgressAfter(hook.version, @, evt),
                                !.lastOp = "progress", !.lastCall = c, !.lastGot = <<>>]

\* axios.post of call c resolves (v1 lines 63-68, v2 lines 130-135): the
\* function goes on to the object URL, or awaits the text of a JSON blob
AxiosResolve(c) ==
    /\ hook.calls[c].pc = "inflight"
    /\ hook.sync = 0
    /\ UNCHANGED <<handlerVars, engineVars, probe, fetcher>>
    /\ \E o \in AxiosResolved :
        hook' = [hook EXCEPT
                    !.status = "processing",
                    !.progress = 97,
                    !.calls[c].got = o,
                    !.calls[c].pc = IF o.type = "application/json" THEN "readJson"
                                    ELSE "processing",
                    !.sync = IF o.type = "application/json" THEN 0 ELSE c,
                    !.lastOp = "resolve", !.lastCall = c, !.lastGot = <<>>]

\* v1 lines 73-89, v2 lines 140-159, in the same stretch as the lines before
HookFinish(c) ==
    /\ hook.sync = c
    /\ hook.calls[c].pc = "processing"
    /\ UNCHANGED <<handlerVars, engineVars, probe, fetcher>>
    /\ LET call == hook.calls[c]
           url == hook.made + 1
       IN  hook' = [hook EXCEPT
                      !.made = url,
                      !.live = @ \cup {url},
                      !.blobUrlRef = Some(url),
                      !.blobRef = IF hook.version = "v2" THEN Some(c) ELSE @,
                      !.compressedSize = Some(CompressedBytes(call.got.header, call.got.size)),
                      !.downloadUrl = Some(url),
                      !.downloadName = Some(DownloadName(call.file.name)),
                      !.progress = 100,
                      !.status = "done",
                      !.calls[c].pc = "finished",
                      !.calls[c].got = NoOutcome,
                      !.sync = 0,
                      !.lastOp = "done", !.lastCall = c, !.lastGot = Some(call.got)]

\* the text of the JSON blob is read: throw, catch (v1 lines 69-70 and
\* 90-99, v2 lines 136-137 and 160-175)
HookJsonError(c) ==
    /\ hook.calls[c].pc = "readJson"
    /\ hook.sync = 0
    /\ hook' = [hook EXCEPT
                  !.errorMessage =
                      Some(CatchMessage(hook.version, JsonBlobError(hook.calls[c].got.body))),
                  !.status = FailedStatus,
                  !.progress = 0,
                  !.calls[c].pc = "failed",
                  !.calls[c].got = NoOutcome,
                  !.lastOp = "error", !.lastCall = c,
                  !.lastGot = Some(hook.calls[c].got)]
    /\ UNCHANGED <<handlerVars, engineVars, probe, fetcher>>

\* axios.post of call c rejects: the catch, after reading the blob of the
\* response if there is one (v1 lines 90-99, v2 lines 160-175)
AxiosReject(c) ==
    /\ hook.calls[c].pc = "inflight"
    /\ hook.sync = 0
    /\ UNCHANGED <<handlerVars, engineVars, probe, fetcher>>
    /\ \E e \in AxiosRejected :
        hook' = [hook EXCEPT
                    !.errorMessage = Some(CatchMessage(hook.version, e)),
                    !.status = FailedStatus,
                    !.progress = 0,
                    !.calls[c].pc = "failed",
                    !.lastOp = "error", !.lastCall = c, !.lastGot = Some(e)]

\* triggerDownload (v2 lines 72-92) up to its setTimeout
TriggerDownload ==
    /\ hook.version = "v2"
    /\ hook.sync = 0
    /\ hook.triggers < MaxTriggers
    /\ hook.blobRef # None /\ hook.downloadName # None
    /\ LET url == hook.made + 1 IN
       hook' = [hook EXCEPT
                  !.live = (IF hook.blobUrlRef # None THEN @ \ {hook.blobUrlRef[1]} ELSE @)
                             \cup {url},
                  !.made = url,
                  !.blobUrlRef = Some(url),
                  !.timers = @ \cup {url},
                  !.triggers = @ + 1,
                  !.lastOp = "trigger", !.lastCall = 0, !.lastGot = <<>>]
    /\ UNCHANGED <<handlerVars, engineVars, probe, fetcher>>

\* the 60 s timer of a triggerDownload fires (v2 lines 87-91)
TimerFires ==
    /\ hook.sync = 0
    /\ \E url \in hook.timers :
        hook' = [hook EXCEPT !.live = @ \ {url}, !.blobUrlRef = None,
                             !.timers = @ \ {url},
                             !.lastOp = "timer", !.lastCall = 0, !.lastGot = <<>>]
    /\ UNCHANGED <<handlerVars, engineVars, probe, fetcher>>

\* the hook with its caller free to call reset and compress at any time
NextHook ==
    \/ HookReset
    \/ HookCompress
    \/ \E c \in 1..Len(hook.calls) : HookProgress(c)
    \/ \E c \in 1..Len(hook.calls) : AxiosResolve(c)
    \/ \E c \in 1..Len(hook.calls) : HookFinish(c)
    \/ \E c \in 1..Len(hook.calls) : HookJsonError(c)
    \/ \E c \in 1..Len(hook.calls) : AxiosReject(c)
    \/ TriggerDownload
    \/ TimerFires

SpecHook == InitHook /\ [][NextHook]_vars

\* the hook as Compressor (src/src/hooks/useCompress.js lines 180-357)
\* uses it: the drop zone, the remove button and the compress button are
\* disabled or hidden while the status is uploading or processing
isBusyNever == FALSE
isBusy == hook.status \in {"uploading", "processing"}
handleReset ==
    /\ ~isBusy
    /\ HookReset
handleCompress ==
    /\ ~isBusy
    /\ HookCompress

NextCompressor ==
    \/ handleReset
    \/ handleCompress
    \/ \E c \in 1..Len(hook.calls) : HookProgress(c)
    \/ \E c \in 1..Len(hook.calls) : AxiosResolve(c)
    \/ \E c \in 1..Len(hook.calls) : HookFinish(c)
    \/ \E c \in 1..Len(hook.calls) : HookJsonError(c)
    \/ \E c \in 1..Len(hook.calls) : AxiosReject(c)
    \/ TriggerDownload
    \/ TimerFires

SpecCompressor == InitHook /\ [][NextCompressor]_vars

\* ------------------------------------------------------------------ claims
Range(q) == {q[i] : i \in 1..Len(q)}
Responded == response.status # 0
Pdf200 == response.status = 200 /\ response.contentType = "application/pdf"
ErrorResponse == response.status >= 400 /\ response.contentType = "application/json"

\* C1: the body of a 200 response is never longer than the input document
\* as it arrived, whichever engine ran.
C1_NeverLarger == Pdf200 => Len(response.body) <= Len(hist.received)
C1_Witness ==
    /\ Pdf200
    /\ Len(hist.engineOutput) > Len(hist.received)
    /\ response.body = hist.received

\* C2: an engine output at least as long as the input is replaced by the
\* input's bytes, a strictly shorter one is returned as it is; the handler's
\* input buffer holds the bytes that arrived from the moment it is set.
C2_SizeCheck ==
    /\ inputBuffer \in {NoBuf, hist.received}
    /\ pc \in {"deleteBlob", "respond"} \/ Pdf200 =>
         /\ compressedBuffer =
              IF Len(hist.engineOutput) >= Len(hist.received)
              THEN hist.received ELSE hist.engineOutput
         /\ Pdf200 => response.body = compressedBuffer
C2_Witness ==
    /\ Pdf200
    /\ Len(hist.engineOutput) = Len(hist.received)
    /\ hist.engineOutput # hist.received
    /\ response.body = hist.received

\* C3 (as claimed): in blob mode, whenever a response has been sent for a
\* request that supplied a blobUrl, deletion of that blob has been requested.
C3_BlobDeletedBeforeResponse ==
    Responded /\ hist.suppliedBlobUrl # Null =>
        hist.suppliedBlobUrl \in Range(hist.delRequests)

\* C4: outside a running compressWithGhostscript there is no pdfcomp temp
\* file on disk, whichever way the function ended.
C4_NoGsTempFiles ==
    pc # "gsExec" => \A id \in Ids : InPath(id) \notin fs /\ OutPath(id) \notin fs
C4_Witness ==
    /\ hist.gsEnding = "timeout"
    /\ pc = "catch"
    /\ InPath(gsId) \notin fs /\ OutPath(gsId) \notin fs

\* C5 (as claimed): in multipart mode, whenever a response has been sent the
\* temp file that held the upload is gone.
C5_UploadRemovedBeforeResponse ==
    Responded /\ hist.uploadPath # NoPath => hist.uploadPath \notin fs

\* C6: at most 4 fetch attempts are made; after a failed attempt the loop
\* goes on exactly when fewer than 4 have been made; a successful attempt
\* ends the loop and its bytes are the input buffer.
C6_BoundedRetry ==
    /\ hist.fetches <= 4
    /\ hist.fetches > 0 /\ hist.served = NoBuf => (pc = "fetch" <=> hist.fetches < 4)
    /\ hist.served # NoBuf => pc # "fetch" /\ inputBuffer = hist.served
C6_Witness ==
    /\ hist.fetches = 4
    /\ hist.served # NoBuf
    /\ Len(hist.served) > 0
    /\ inputBuffer = hist.served

\* C7: when the 4th attempt has failed too, the error thrown names the 4
\* attempts and ends with the cause of that 4th failure, and no buffer is
\* returned.
C7_ExhaustedError ==
    hist.fetches >= 4 /\ hist.served = NoBuf =>
        /\ err.message = <<"Failed to fetch blob after ", "4", " attempts: ">>
                         \o hist.lastCause
        /\ hist.lastCause # <<>>
        /\ inputBuffer = NoBuf
        /\ ~Pdf200
C7_Witness ==
    /\ hist.fetches = 4
    /\ hist.served = NoBuf
    /\ pc = "catch"
    /\ hist.lastCause = <<"timeout">>

\* C8: once compressWithGhostscript has thrown, the request only goes to
\* its error response: compressWithMuPDF is not run and
\* compressWithGhostscript is not run again.
C8_GsFailureIsTerminal ==
    hist.gsFailed =>
        /\ hist.mupdfRuns = 0
        /\ hist.gsRuns = 1
        /\ pc \in {"catch", "catchSend", "done"}
        /\ Responded => ErrorResponse
C8_Witness ==
    /\ hist.gsFailed
    /\ hist.gsEnding = "nonzero"
    /\ pc = "done"
    /\ ErrorResponse

\* C9: a request is at or past compressWithGhostscript exactly when its own
\* probe found a working binary, and at or past compressWithMuPDF exactly
\* when its own probe found none, whatever an earlier request's probe found.
C9_FreshSelection ==
    /\ pc \in {"gs", "gsExec"} \/ hist.gsRuns > 0 => hist.probed /\ hist.probeFound
    /\ pc = "mupdf" \/ hist.mupdfRuns > 0 => hist.probed /\ ~hist.probeFound
    /\ hist.probed /\ hist.probeFound => pc = "gs" \/ hist.gsRuns = 1
    /\ hist.probed /\ ~hist.probeFound => pc = "mupdf" \/ hist.mupdfRuns = 1
    /\ hist.gsRuns + hist.mupdfRuns <= 1
C9_Witness ==
    /\ hist.prevProbe = "null"
    /\ hist.probeFound
    /\ hist.gsRuns = 1

\* C10: the engine named in a 200 response is ghostscript exactly when
\* compressWithGhostscript ran and mupdf exactly when compressWithMuPDF ran,
\* also when the size check put the input back.
C10_EngineTag ==
    Pdf200 =>
        /\ response.engine \in {"ghostscript", "mupdf"}
        /\ response.engine = "ghostscript" <=> hist.gsRuns > 0
        /\ response.engine = "mupdf" <=> hist.mupdfRuns > 0
C10_Witness ==
    /\ Pdf200
    /\ hist.discarded
    /\ response.engine = "ghostscript"
    /\ hist.gsRuns = 1

\* C11: the engine reads the LEVEL_CONFIG row of the requested level, and
\* the medium row for every other level value, a missing one included; such
\* a value does not stop the request before the engine.
PolicyRow(l) ==
    CASE l = "low"    -> [quality |-> 85, scale10 |-> 15, gsSetting |-> "/printer"]
      [] l = "medium" -> [quality |-> 60, scale10 |-> 12, gsSetting |-> "/ebook"]
      [] l = "high"   -> [quality |-> 35, scale10 |-> 10, gsSetting |-> "/screen"]
PolicyLevel(requested) ==
    IF requested \in {"low", "medium", "high"} THEN requested ELSE "medium"
C11_LevelPolicy ==
    /\ hist.probed => level = PolicyLevel(hist.requestedLevel)
    /\ hist.gsRuns + hist.mupdfRuns > 0 =>
         hist.params = PolicyRow(PolicyLevel(hist.requestedLevel))
    /\ pc \in {"select", "gs", "mupdf"} => ~Responded /\ err = NoErr
C11_Witness ==
    /\ Pdf200
    /\ hist.requestedLevel = "ultra"
    /\ hist.params = PolicyRow("medium")

C13_OversizeRejected ==
    hist.oversize =>
        /\ hist.gsRuns = 0 /\ hist.mupdfRuns = 0
        /\ Responded =>
             /\ response.status = 413
             /\ response.error = <<"File too large. Maximum upload size is 50 MB.">>

\* C14 (as claimed): when the fetch attempts are exhausted the client gets
\* the generic retrieval message, and nothing of the last attempt's cause.
FetchExhausted == hist.fetches >= maxAttempts /\ hist.served = NoBuf
C14_GenericRetrievalMessage ==
    FetchExhausted /\ Responded =>
        /\ Includes(response.error, "Could not retrieve uploaded file: ")
        /\ \A part \in Range(hist.lastCause) : ~Includes(response.error, part)

\* C15 (as claimed): the response to an unclassified failure is the one an
\* unclassified failure with any other text gets: it does not vary with
\* the internal error's text.
Classified(e) ==
    \/ is413(e)
    \/ \E part \in {"encrypted", "password", "timeout", "Failed to fetch blob after ",
                    "corrupt", "repair"} : Includes(e.message, part)
C15_UnclassifiedIsGeneric ==
    err # NoErr /\ ~Classified(err) /\ Responded =>
        response = sendJson(500, ErrorMessage(Error(<<>>)))

\* C16: when compressWithMuPDF fails on a password-protected document the
\* request ends with the 'Encrypted PDFs are not supported' error response;
\* no 200 is sent and no engine is run again.
C16_EncryptedDocument ==
    hist.encrypted =>
        /\ hist.mupdfRuns = 1 /\ hist.gsRuns = 0
        /\ pc \in {"catch", "catchSend", "done"}
        /\ compressedBuffer = NoBuf
        /\ Responded =>
             /\ ErrorResponse
             /\ response.error = <<"Encrypted PDFs are not supported. Please remove the ",
                                   "password", " first.">>
C16_Witness ==
    /\ hist.encrypted
    /\ Includes(err.message, "password")
    /\ pc = "done"
    /\ ErrorResponse

\* C20: in a 200 response X-Original-Size is the length of the input as it
\* arrived, and X-Compressed-Size and Content-Length are the length of the
\* body sent, after the size check.
C20_SizeHeaders ==
    Pdf200 =>
        /\ response.originalSize = Len(hist.received)
        /\ response.compressedSize = Len(response.body)
        /\ response.contentLength = Len(response.body)
C20_Witness ==
    /\ Pdf200
    /\ hist.discarded
    /\ Len(hist.engineOutput) > Len(response.body)
    /\ response.compressedSize = Len(hist.received)
    /\ response.engine = "mupdf"

\* C17: the output of compressWithMuPDF has one page per input page, in the
\* input's order; page k has input page k's width and height and draws the
\* one image encoded from that page; every page object created is in the
\* page tree, appended in creation order, when the document is serialized.
PageOf(k) ==
    LET b == mu.src[k] IN
    [w |-> b[3] - b[1], h |-> b[4] - b[2]]
BuiltFrom(obj, k) ==
    /\ obj.mediabox = <<0, 0, PageOf(k).w, PageOf(k).h>>
    /\ DOMAIN obj.XObject = {"Im0"}
    /\ obj.XObject.Im0.stream.page = k - 1
    /\ obj.contents = <<"q", PageOf(k).w, 0, 0, PageOf(k).h, 0, 0, "cm", "/Im0", "Do", "Q">>
C17_PagesPreserved ==
    /\ mu.pc = "returned" =>
         /\ Len(mu.buf) = Len(mu.src)
         /\ \A k \in 1..Len(mu.buf) : BuiltFrom(mu.buf[k], k)
    /\ mu.pc \in {"loop", "returned"} => mu.tree = mu.created
    /\ mu.pc = "created" => mu.created = Append(mu.tree, mu.pageObj)
    /\ \A k \in 1..Len(mu.tree) : BuiltFrom(mu.tree[k], k)
C17_Witness ==
    /\ mu.pc = "returned"
    /\ Len(mu.src) >= 2
    /\ mu.src[1] # mu.src[2]
    /\ Len(mu.buf) = Len(mu.src)

\* C18: at most one Pixmap is live at any time in compressWithMuPDF; the
\* Pixmap of a page is released once encoded, before the next page is
\* loaded and rasterized.
C18_OnePixmap ==
    /\ Cardinality(mu.live) <= 1
    /\ mu.pc \in {"loop", "loaded", "released", "created", "returned"} => mu.live = {}
    /\ \A p \in mu.live : p.page = mu.i
C18_Witness ==
    /\ mu.pc = "rendered"
    /\ mu.i >= 1
    /\ Cardinality(mu.live) = 1

\* C19: calls of compressWithGhostscript that overlap have distinct temp
\* paths; no call reads, overwrites or deletes a file another call created,
\* each file is deleted by its creator before that call ends, and a call
\* returns the output made from its own input.
C19_NoTempCollision ==
    /\ conc.foreign = {}
    /\ \A u \in conc.unlinked : u.by = u.creator
    /\ \A p, q \in DOMAIN conc.pcs :
         p # q /\ conc.ids[p] # 0 /\ conc.ids[q] # 0 =>
            {InPath(conc.ids[p]), OutPath(conc.ids[p])}
              \cap {InPath(conc.ids[q]), OutPath(conc.ids[q])} = {}
    /\ \A p \in DOMAIN conc.pcs :
         /\ conc.pcs[p] = "done" => \A f \in conc.tmp : f.creator # p
         /\ conc.results[p] \in {0, -1, p}
C19_Witness ==
    /\ \A p \in DOMAIN conc.pcs : conc.pcs[p] = "resume"
    /\ Cardinality(conc.tmp) = 2 * NumInvocations

\* C24 (as claimed): a request goes through the orchestration states in the
\* order Idle, EngineSelection, Transcoding, SizeCheck, Done; Error is
\* entered from EngineSelection or Transcoding only and is not left.
\* The orchestration starts with the probe: a request that fails or is
\* refused before it has not left Idle.
Stage(at, probed, failed, ok) ==
    CASE at = "select" -> "EngineSelection"
      [] at \in {"gs", "gsExec", "mupdf"} -> "Transcoding"
      [] at = "sizeCheck" -> "SizeCheck"
      [] at \in {"deleteBlob", "respond"} -> "Done"
      [] at \in {"catch", "catchSend"} /\ probed -> "Error"
      [] at = "done" /\ ok -> "Done"
      [] at = "done" /\ ~ok /\ probed /\ failed -> "Error"
      [] OTHER -> "Idle"
StageOrder ==
    {<<"Idle", "EngineSelection">>, <<"EngineSelection", "Transcoding">>,
     <<"Transcoding", "SizeCheck">>, <<"SizeCheck", "Done">>,
     <<"EngineSelection", "Error">>, <<"Transcoding", "Error">>}
C24_StageOrder ==
    [][LET from == Stage(pc, hist.probed, err # NoErr, Pdf200)
           to == Stage(pc', hist'.probed, err' # NoErr,
                       response'.status = 200 /\ response'.contentType = "application/pdf")
       IN  reqNo' = reqNo /\ from # to => <<from, to>> \in StageOrder]_vars

\* C25: every POST that has ended got one response, a 200 PDF or a JSON
\* error; a response once sent is not followed by another in the request;
\* an exception raised anywhere in the request is in the handler's catch
\* or already answered, never with the caller.
C25_OneStructuredResponse ==
    /\ [](pc = "done" /\ mode # "" =>
            \/ Pdf200 /\ err = NoErr
            \/ ErrorResponse /\ response.error # <<>>)
    /\ [](err # NoErr => pc \in {"catch", "catchSend", "done"})
    /\ [][Responded /\ reqNo' = reqNo => response' = response]_vars
C25_Witness ==
    /\ pc = "done"
    /\ mode = "json"
    /\ hist.gsFailed
    /\ ErrorResponse
    /\ response.status = 500

\* C28: del(blobUrl) is called at most once in a request; an exception
\* after the success-path deletion does not make the catch call it again.
C28_DeleteAtMostOnce == Len(hist.delRequests) <= 1
C28_Witness ==
    /\ Len(hist.delRequests) = 1
    /\ err.code = "ERR_INVALID_CHAR"
    /\ pc = "done"
    /\ ErrorResponse

\* C26: findGhostscript tries the candidates in list order, each at most
\* once; it returns the first one whose --version call succeeds, having
\* tried none after it, and null when all calls fail or time out; no
\* outcome of a call makes it end otherwise.
Working(env) == {i \in DOMAIN env : env[i] = "ok"}
C26_FirstWorkingCandidate ==
    /\ probe.pc \in {"idle", "loop", "await", "returned"}
    /\ \A k \in 1..Len(probe.tried) : probe.tried[k] = k
    /\ \A k \in 1..Len(probe.tried) :
         k < Len(probe.tried) \/ probe.pc = "loop" => probe.env[k] # "ok"
    /\ probe.pc = "returned" =>
         /\ probe.result = findGhostscript(Working(probe.env))
         /\ IF Working(probe.env) = {}
            THEN probe.result = Null /\ Len(probe.tried) = Len(GS_CANDIDATES)
            ELSE /\ probe.result = GS_CANDIDATES[Len(probe.tried)]
                 /\ probe.env[Len(probe.tried)] = "ok"
C26_Witness ==
    /\ probe.pc = "returned"
    /\ probe.env[1] = "timeout"
    /\ probe.env[2] = "ENOENT"
    /\ probe.env[3] = "ok"
    /\ probe.env[4] = "ok"
    /\ probe.result = "/usr/bin/gs"

\* C27 (as claimed): the attempts of a fetchBlobAsBuffer call never
\* overlap: at most one request is open; attempt k+1 starts after attempt
\* k failed and the delay that follows it; the first event is the start of
\* attempt 1, and no delay follows the last failure.
EventsInOrder(ev) ==
    \A n \in 1..Len(ev) :
        LET e == ev[n] IN
        CASE e[1] = "start" ->
                IF e[2] = 1 THEN n = 1
                ELSE n > 2 /\ ev[n - 1] = <<"delay", e[2]>> /\ ev[n - 2] = <<"fail", e[2] - 1>>
          [] e[1] = "delay" -> n > 1 /\ ev[n - 1] = <<"fail", e[2] - 1>> /\ e[2] <= maxAttempts
          [] e[1] = "fail" -> n > 1 /\ ev[n - 1] = <<"start", e[2]>>
C27_SequentialAttempts ==
    /\ Cardinality(fetcher.open) <= 1
    /\ EventsInOrder(fetcher.events)
    /\ fetcher.pc = "threw" =>
         fetcher.events[Len(fetcher.events)] = <<"fail", maxAttempts>>
\* the order of the delays and attempts alone, which the loop keeps
C27_DelaysInOrder ==
    /\ EventsInOrder(fetcher.events)
    /\ fetcher.pc = "threw" =>
         fetcher.events[Len(fetcher.events)] = <<"fail", maxAttempts>>

\* ---- useCompress

\* the call the latest operation of the hook belongs to, and how its
\* request ended
LastCall == hook.calls[hook.lastCall]
LastGot == hook.lastGot[1]
\* a file name with a trailing .pdf, in any case, replaced by _compressed.pdf,
\* and _compressed.pdf appended to a name without one
Renamed(name) ==
    IF Len(name) > 0 /\ name[Len(name)] \in {".pdf", ".PDF"}
    THEN SubSeq(name, 1, Len(name) - 1) \o <<"_compressed.pdf">>
    ELSE name \o <<"_compressed.pdf">>
\* what a successful compress leaves apart from the compressed size
SuccessLeaves ==
    /\ hook.status = "done"
    /\ hook.progress = 100
    /\ hook.originalSize = Some(LastCall.file.size)
    /\ hook.downloadUrl = Some(hook.made)
    /\ hook.made \in hook.live
    /\ hook.downloadName = Some(Renamed(LastCall.file.name))

FailureLeaves ==
    /\ hook.status = "error"
    /\ hook.progress = 0
    /\ hook.errorMessage # None
    /\ LastCall.pc = "failed"
\* the request timed out, as the later version decides it
TimedOut(e) == e.code = "ECONNABORTED" \/ \E k \in 1..Len(e.message) : e.message[k] = "timeout"
\* the error's own message, or the default text when it has none
OwnMessage(e) == IF e.message = <<>> THEN <<"An unexpected error occurred.">> ELSE e.message

\* C22 as stated: when the compress request fails the hook has status error,
\* progress 0, and errorMessage is the error text of the server's JSON
\* response when the response carries one, the failing request's error
\* message otherwise.
C22_RequestErrorMessage ==
    hook.lastOp = "error" /\ LastGot.kind = "reject" =>
        /\ FailureLeaves
        /\ hook.errorMessage =
             Some(IF LastGot.hasBlob /\ LastGot.body.json /\ LastGot.body.error # None
                  THEN LastGot.body.error[1]
                  ELSE OwnMessage(LastGot))

\* C22 amended: when the compress request fails the hook has status error and
\* progress 0, the call is never the one that sets status done, and
\* errorMessage is, in the later version for a timed-out request, the fixed
\* time-out text; else for a response with a body the error member of the
\* JSON body (undefined when it has none) or the body's text when it is not
\* JSON; else the error's message, or the default text when that is empty.
C22_FailedCompress ==
    /\ hook.lastOp = "error" => FailureLeaves
    /\ hook.lastOp = "error" /\ LastGot.kind = "reject" =>
        hook.errorMessage =
             Some(IF hook.version = "v2" /\ TimedOut(LastGot)
                  THEN <<"The request timed out. Your PDF may be too large or complex">>
                  ELSE IF LastGot.hasBlob /\ LastGot.body.json /\ LastGot.body.error # None
                  THEN LastGot.body.error[1]
                  ELSE IF LastGot.hasBlob /\ LastGot.body.json THEN Undefined
                  ELSE IF LastGot.hasBlob THEN LastGot.body.text
                  ELSE OwnMessage(LastGot))
    /\ hook.lastOp = "done" => LastCall.pc = "finished"
    /\ \A c \in 1..Len(hook.calls) :
        hook.calls[c].pc = "failed" => ~(hook.lastOp = "done" /\ hook.lastCall = c)

\* a request has failed with a 500 whose body is not JSON, and the hook
\* shows the body's text
C22_Witness ==
    /\ hook.lastOp = "error"
    /\ LastGot.kind = "reject"
    /\ LastGot.status = 500
    /\ LastGot.body = PlainBody
    /\ hook.status = "error"
    /\ hook.errorMessage = Some(PlainBody.text)

\* the state useState gives the hook when it mounts
InitialState ==
    /\ hook.status = "idle"
    /\ hook.progress = 0
    /\ hook.originalSize = None
    /\ hook.compressedSize = None
    /\ hook.downloadUrl = None
    /\ hook.downloadName = None
    /\ hook.errorMessage = None

\* C23: reset(), called in any state, leaves status idle, progress 0 and the
\* five result fields null, and the object URL the hook held in downloadUrl
\* is revoked; a hook that has never compressed is in that same state.
C23_ResetRestoresInitial ==
    /\ hook.version # "none" /\ hook.calls = <<>> => InitialState
    /\ hook.lastOp = "reset" => InitialState /\ hook.blobUrlRef = None
    /\ hook.lastOp = "reset" => hook.live \subseteq hook.timers

\* the changes of status along idle -> uploading -> processing -> done,
\* with error entered from uploading and processing
StatusChain ==
    {<<"idle", "uploading">>, <<"uploading", "processing">>, <<"processing", "done">>,
     <<"uploading", "error">>, <<"processing", "error">>}
\* one step of the hook changes the status as the chain allows, or leaves
\* done or error by a reset (to idle) or by a new compress (to uploading)
StatusStep ==
    \/ hook'.status = hook.status
    \/ <<hook.status, hook'.status>> \in StatusChain
    \/ /\ hook.status \in {"done", "error"}
       /\ \/ hook'.status = "idle" /\ hook'.lastOp = "reset"
          \/ hook'.status = "uploading" /\ hook'.lastOp = "compress"

C30_ResetSticks ==
    hook.sinceReset => InitialState

====
